---- MODULE Spec2Model ----
(***************************************************************************)
(* A model of redaxios (src/src/index.js, the client built by create()):   *)
(* the private deepMerge, the request function redaxios and the promise    *)
(* chain it returns.                                                       *)
(*                                                                         *)
(* JavaScript values live in a heap of objects, so that object identity    *)
(* and writes are observable.  Strings are sequences of one-character      *)
(* strings, so that case folding, the baseURL regular expression, the      *)
(* query string and JSON text are computed character by character.         *)
(***************************************************************************)
EXTENDS Integers, Sequences, FiniteSets, TLC

VARIABLES
    heap,      \* the objects, by address
    defaults,  \* the defaults the client was created with (create's closure variable)
    client,    \* the client function's own properties: defaults, and how often it was assigned
    cookie,    \* document.cookie
    calls,     \* one record per call of redaxios, in call order
    merges,    \* one record per direct application of deepMerge
    held       \* objects the caller holds besides the client

vars == <<heap, defaults, client, cookie, calls, merges, held>>

-----------------------------------------------------------------------------
(* Strings *)

UpperChars == <<"A","B","C","D","E","F","G","H","I","J","K","L","M",
                "N","O","P","Q","R","S","T","U","V","W","X","Y","Z">>

LowerChars == <<"a","b","c","d","e","f","g","h","i","j","k","l","m",
                "n","o","p","q","r","s","t","u","v","w","x","y","z">>

DigitChars == <<"0","1","2","3","4","5","6","7","8","9">>

\* String.prototype.toLowerCase on one character.
LowerChar(c) ==
    IF \E i \in DOMAIN UpperChars : UpperChars[i] = c
    THEN LowerChars[CHOOSE i \in DOMAIN UpperChars : UpperChars[i] = c]
    ELSE c

\* String.prototype.toLowerCase.
toLowerCase(s) == [i \in DOMAIN s |-> LowerChar(s[i])]

\* String.prototype.indexOf for a one-character needle; -1 when absent.
indexOf(s, c) ==
    IF \E i \in DOMAIN s : s[i] = c
    THEN (CHOOSE i \in DOMAIN s : s[i] = c /\ \A j \in 1..(i - 1) : s[j] # c) - 1
    ELSE -1

\* Whether needle occurs in s as a substring.
Contains(s, needle) ==
    \E i \in 1..(Len(s) - Len(needle) + 1) :
        SubSeq(s, i, i + Len(needle) - 1) = needle

\* Number.prototype.toString for the naturals below 100.
NumStringOf(n) ==
    IF n < 10 THEN <<DigitChars[n + 1]>>
    ELSE <<DigitChars[(n \div 10) + 1], DigitChars[(n % 10) + 1]>>

sHeaders == <<"h","e","a","d","e","r","s">>
sContentType == <<"c","o","n","t","e","n","t","-","t","y","p","e">>
sApplicationJson == <<"a","p","p","l","i","c","a","t","i","o","n","/","j","s","o","n">>
sAuthorization == <<"a","u","t","h","o","r","i","z","a","t","i","o","n">>
sUndefined == <<"u","n","d","e","f","i","n","e","d">>
sNull == <<"n","u","l","l">>
sTrue == <<"t","r","u","e">>
sFalse == <<"f","a","l","s","e">>
sObjectObject == <<"[","o","b","j","e","c","t"," ","O","b","j","e","c","t","]">>
sInclude == <<"i","n","c","l","u","d","e">>
sSameOrigin == <<"s","a","m","e","-","o","r","i","g","i","n">>
sStream == <<"s","t","r","e","a","m">>
sText == <<"t","e","x","t">>
sJson == <<"j","s","o","n">>
sBlob == <<"b","l","o","b">>
sAppend == <<"a","p","p","e","n","d">>
sUrl == <<"u","r","l">>
sData == <<"d","a","t","a">>
sConfig == <<"c","o","n","f","i","g">>
sMethod == <<"m","e","t","h","o","d">>
sAuth == <<"a","u","t","h">>
sBaseURL == <<"b","a","s","e","U","R","L">>
sParams == <<"p","a","r","a","m","s">>
sParamsSerializer == <<"p","a","r","a","m","s","S","e","r","i","a","l","i","z","e","r">>
sTransformRequest == <<"t","r","a","n","s","f","o","r","m","R","e","q","u","e","s","t">>
sXsrfCookieName == <<"x","s","r","f","C","o","o","k","i","e","N","a","m","e">>
sXsrfHeaderName == <<"x","s","r","f","H","e","a","d","e","r","N","a","m","e">>
sValidateStatus == <<"v","a","l","i","d","a","t","e","S","t","a","t","u","s">>
sResponseType == <<"r","e","s","p","o","n","s","e","T","y","p","e">>
sWithCredentials == <<"w","i","t","h","C","r","e","d","e","n","t","i","a","l","s">>
sFetch == <<"f","e","t","c","h">>
sStatus == <<"s","t","a","t","u","s">>
sOk == <<"o","k">>
sBody == <<"b","o","d","y">>

-----------------------------------------------------------------------------
(* Values and the heap *)

\* A JavaScript value: t is its typeof-like tag, s the characters of a
\* string, r a number, a boolean (0/1), a function's id or an object's address.
Undefined == [t |-> "undefined", s |-> <<>>, r |-> 0]
Null == [t |-> "null", s |-> <<>>, r |-> 0]
Str(s) == [t |-> "string", s |-> s, r |-> 0]
Num(n) == [t |-> "number", s |-> <<>>, r |-> n]
Bool(b) == [t |-> "boolean", s |-> <<>>, r |-> IF b THEN 1 ELSE 0]
Fn(id) == [t |-> "function", s |-> <<>>, r |-> id]
Ref(a) == [t |-> "object", s |-> <<>>, r |-> a]

\* An object literal the caller writes: allocated by Alloc.  cls is the
\* object's class, props its own enumerable properties in insertion order,
\* elems an array's elements, slot an internal slot (a Response's body text).
Lit(cls, props, elems) == [t |-> "lit", cls |-> cls, props |-> props, elems |-> elems, slot |-> <<>>]
Obj(props) == Lit("Object", props, <<>>)
Arr(elems) == Lit("Array", <<>>, elems)
P(k, v) == [k |-> k, v |-> v]

\* typeof v
typeof(v) == IF v.t = "null" THEN "object" ELSE v.t

\* JavaScript truthiness.
Truthy(v) ==
    CASE v.t = "undefined" -> FALSE
      [] v.t = "null" -> FALSE
      [] v.t = "string" -> Len(v.s) > 0
      [] v.t = "number" -> v.r # 0
      [] v.t = "boolean" -> v.r = 1
      [] OTHER -> TRUE

IsObject(v) == v.t = "object"

\* const x = e; F(x): e is evaluated once, where its value is first needed.
With(e, F(_)) == F(e)

\* Array.isArray
IsArray(h, v) == IsObject(v) /\ h[v.r].cls = "Array"

RECURSIVE Alloc(_, _), AllocSeq(_, _)

\* The caller evaluating an object literal: every nested literal becomes a
\* fresh heap object.  Returns the new heap and the value.
Alloc(h, l) ==
    IF l.t # "lit" THEN [h |-> h, v |-> l]
    ELSE With(AllocSeq(h, [i \in DOMAIN l.props |-> l.props[i].v]), LAMBDA p :
         With(AllocSeq(p.h, l.elems), LAMBDA e :
            [h |-> Append(e.h, [cls |-> l.cls,
                                props |-> [i \in DOMAIN l.props |-> P(l.props[i].k, p.vs[i])],
                                elems |-> e.vs,
                                slot |-> l.slot]),
             v |-> Ref(Len(e.h) + 1)]))

AllocSeq(h, ls) ==
    IF Len(ls) = 0 THEN [h |-> h, vs |-> <<>>]
    ELSE With(Alloc(h, Head(ls)), LAMBDA a :
         With(AllocSeq(a.h, Tail(ls)), LAMBDA r :
            [h |-> r.h, vs |-> <<a.v>> \o r.vs]))

RECURSIVE Reify(_, _)

\* The structure a value denotes in heap h, as a literal: two values have the
\* same keys, values and lengths at every depth iff their Reify agree.
Reify(h, v) ==
    IF ~IsObject(v) THEN v
    ELSE LET o == h[v.r]
         IN [t |-> "lit", cls |-> o.cls,
             props |-> [i \in DOMAIN o.props |-> P(o.props[i].k, Reify(h, o.props[i].v))],
             elems |-> [i \in DOMAIN o.elems |-> Reify(h, o.elems[i])],
             slot |-> o.slot]

\* Methods an object inherits from its class's prototype.
ProtoMethods(cls) ==
    CASE cls = "FormData" -> {sAppend}
      [] cls = "Blob" -> {sText}
      [] cls = "Response" -> {sText, sJson, sBlob}
      [] OTHER -> {}

HasKey(props, k) == \E i \in DOMAIN props : props[i].k = k

KeyIndex(props, k) == CHOOSE i \in DOMAIN props : props[i].k = k

\* props[k] for an ordered property list.
GetKey(props, k) == IF HasKey(props, k) THEN props[KeyIndex(props, k)].v ELSE Undefined

\* props[k] = v: an existing key keeps its place, a new key goes last.
SetKey(props, k, v) ==
    IF HasKey(props, k)
    THEN [props EXCEPT ![KeyIndex(props, k)] = P(k, v)]
    ELSE Append(props, P(k, v))

\* v[k]: an own property, else a prototype method; undefined on a primitive.
Get(h, v, k) ==
    IF ~IsObject(v) THEN Undefined
    ELSE IF HasKey(h[v.r].props, k) THEN GetKey(h[v.r].props, k)
    ELSE IF k \in ProtoMethods(h[v.r].cls) THEN Fn(0)
    ELSE Undefined

\* The (key, value) pairs a for...in loop over v visits, in order: an
\* object's own properties, an array's or a string's indices, nothing for
\* any other primitive.
ForIn(h, v) ==
    IF IsObject(v)
    THEN IF h[v.r].cls = "Array"
         THEN [i \in DOMAIN h[v.r].elems |-> P(NumStringOf(i - 1), h[v.r].elems[i])]
         ELSE h[v.r].props
    ELSE IF v.t = "string"
         THEN [i \in DOMAIN v.s |-> P(NumStringOf(i - 1), Str(<<v.s[i]>>))]
         ELSE <<>>

-----------------------------------------------------------------------------
(* deepMerge *)

RECURSIVE CopyKeys(_, _, _)

\* for (i in opts) out[lowerCase ? i.toLowerCase() : i] = opts[i]
CopyKeys(out, entries, lowerCase) ==
    IF Len(entries) = 0 THEN out
    ELSE LET i == Head(entries).k
             key == IF lowerCase THEN toLowerCase(i) ELSE i
         IN CopyKeys(SetKey(out, key, Head(entries).v), Tail(entries), lowerCase)

\* A concatenation that puts the elements of overrides first.
ConcatOverridesFirst(h, opts, overrides) ==
    LET more == IF IsArray(h, overrides) THEN h[overrides.r].elems ELSE <<overrides>>
        obj == [cls |-> "Array", props |-> <<>>, elems |-> more \o h[opts.r].elems, slot |-> <<>>]
    IN [h |-> Append(h, obj), v |-> Ref(Len(h) + 1)]

\* opts.concat(overrides): a fresh array; an array argument is spread, any
\* other value is appended as one element.
Concat(h, opts, overrides) ==
    LET more == IF IsArray(h, overrides) THEN h[overrides.r].elems ELSE <<overrides>>
        obj == [cls |-> "Array", props |-> <<>>, elems |-> h[opts.r].elems \o more, slot |-> <<>>]
    IN [h |-> Append(h, obj), v |-> Ref(Len(h) + 1)]

\* A merge that writes its result into opts itself.
StoreInOpts(h, opts, out) ==
    IF IsObject(opts) THEN [h |-> [h EXCEPT ![opts.r].props = out], v |-> opts]
    ELSE [h |-> Append(h, [cls |-> "Object", props |-> out, elems |-> <<>>, slot |-> <<>>]),
          v |-> Ref(Len(h) + 1)]

\* Where deepMerge puts its result: a fresh object `out`.
StoreOut(h, opts, out) ==
    [h |-> Append(h, [cls |-> "Object", props |-> out, elems |-> <<>>, slot |-> <<>>]),
     v |-> Ref(Len(h) + 1)]

RECURSIVE deepMerge(_, _, _, _), MergeKeys(_, _, _, _)

\* for (i in overrides) out[key] = key in out && typeof value == 'object'
\*     ? deepMerge(out[key], value, key === 'headers') : value
MergeKeys(h, out, entries, lowerCase) ==
    IF Len(entries) = 0 THEN [h |-> h, out |-> out]
    ELSE LET i == Head(entries).k
             key == IF lowerCase THEN toLowerCase(i) ELSE i
             value == Head(entries).v
         IN IF HasKey(out, key) /\ typeof(value) = "object"
            THEN With(deepMerge(h, GetKey(out, key), value, key = sHeaders), LAMBDA rec :
                    MergeKeys(rec.h, SetKey(out, key, rec.v), Tail(entries), lowerCase))
            ELSE MergeKeys(h, SetKey(out, key, value), Tail(entries), lowerCase)

\* deepMerge(opts, overrides, lowerCase): the new heap and the merged value.
deepMerge(h, opts, overrides, lowerCase) ==
    IF IsArray(h, opts) THEN Concat(h, opts, overrides)
    ELSE With(MergeKeys(h, CopyKeys(<<>>, ForIn(h, opts), lowerCase),
                        ForIn(h, overrides), lowerCase), LAMBDA m :
            StoreOut(m.h, opts, m.out))

-----------------------------------------------------------------------------
(* Conversions *)

RECURSIVE Join(_, _)

\* The strings of parts joined by sep.
Join(parts, sep) ==
    IF Len(parts) = 0 THEN <<>>
    ELSE IF Len(parts) = 1 THEN parts[1]
    ELSE parts[1] \o sep \o Join(Tail(parts), sep)

RECURSIVE Serializable(_)

\* The properties JSON.stringify keeps: not undefined, not a function.
Serializable(props) ==
    IF Len(props) = 0 THEN <<>>
    ELSE (IF Head(props).v.t \in {"undefined", "function"} THEN <<>> ELSE <<Head(props)>>)
         \o Serializable(Tail(props))

RECURSIVE StringOf(_)

\* String(l) for a reified value: what '+' and URLSearchParams apply.
StringOf(l) ==
    CASE l.t = "string" -> l.s
      [] l.t = "number" -> NumStringOf(l.r)
      [] l.t = "boolean" -> IF l.r = 1 THEN sTrue ELSE sFalse
      [] l.t = "undefined" -> sUndefined
      [] l.t = "null" -> sNull
      [] l.t = "lit" /\ l.cls = "Array" ->
            Join([i \in DOMAIN l.elems |->
                    IF l.elems[i].t \in {"undefined", "null"} THEN <<>>
                    ELSE StringOf(l.elems[i])], <<",">>)
      [] OTHER -> sObjectObject

\* A string as a JSON string literal: quotes and backslashes escaped.
RECURSIVE EscapeJson(_)
EscapeJson(s) ==
    IF Len(s) = 0 THEN <<>>
    ELSE (IF Head(s) \in {"\"", "\\"} THEN <<"\\", Head(s)>> ELSE <<Head(s)>>)
         \o EscapeJson(Tail(s))

Quote(s) == <<"\"">> \o EscapeJson(s) \o <<"\"">>

RECURSIVE StringifyLit(_)

\* JSON.stringify of a reified value: an object's undefined and function
\* properties are left out, an array's become null.
StringifyLit(l) ==
    CASE l.t = "string" -> Quote(l.s)
      [] l.t = "number" -> NumStringOf(l.r)
      [] l.t = "boolean" -> IF l.r = 1 THEN sTrue ELSE sFalse
      [] l.t = "null" -> sNull
      [] l.t = "lit" /\ l.cls = "Array" ->
            <<"[">> \o
            Join([i \in DOMAIN l.elems |->
                    IF l.elems[i].t \in {"undefined", "function"} THEN sNull
                    ELSE StringifyLit(l.elems[i])], <<",">>)
            \o <<"]">>
      [] l.t = "lit" ->
            LET kept == Serializable(l.props)
            IN <<"{">> \o
               Join([i \in DOMAIN kept |->
                       Quote(kept[i].k) \o <<":">> \o StringifyLit(kept[i].v)], <<",">>)
               \o <<"}">>
      [] OTHER -> sUndefined

\* JSON.stringify(v) for a value of heap h.
JSONStringify(h, v) == StringifyLit(Reify(h, v))

sHello == <<"h","e","l","l","o">>
sWorld == <<"w","o","r","l","d">>

\* The JSON documents the model's texts can denote.
JsonDocs ==
    { Obj(<<P(sHello, Str(sWorld))>>), Obj(<<>>), Arr(<<Num(1)>>), Num(1), Num(42), Null,
      Str(sHello) }

\* JSON.parse(text): the document whose JSON text is `text`; ok is FALSE
\* where JSON.parse throws a SyntaxError.
JSONParse(text) ==
    IF \E d \in JsonDocs : StringifyLit(d) = text
    THEN [ok |-> TRUE, lit |-> CHOOSE d \in JsonDocs : StringifyLit(d) = text]
    ELSE [ok |-> FALSE, lit |-> Undefined]

\* A thrown or rejected Error of the given kind.
Err(kind) == [t |-> "error", s |-> kind, r |-> 0]
TypeError == Err(<<"T","y","p","e","E","r","r","o","r">>)
URIError == Err(<<"U","R","I","E","r","r","o","r">>)

\* Percent escapes decodeURIComponent and the form encoder know here.
Escapes ==
    << [c |-> " ", e |-> <<"%","2","0">>],
       [c |-> "&", e |-> <<"%","2","6">>],
       [c |-> "=", e |-> <<"%","3","D">>],
       [c |-> "?", e |-> <<"%","3","F">>],
       [c |-> "/", e |-> <<"%","2","F">>] >>

RECURSIVE decodeURIComponent(_)

\* decodeURIComponent(s): ok is FALSE where it throws a URIError (a '%' that
\* starts no escape).
decodeURIComponent(s) ==
    IF Len(s) = 0 THEN [ok |-> TRUE, s |-> <<>>]
    ELSE IF Head(s) # "%"
         THEN With(decodeURIComponent(Tail(s)), LAMBDA r :
                 [ok |-> r.ok, s |-> <<Head(s)>> \o r.s])
    ELSE IF Len(s) >= 3 /\ \E i \in DOMAIN Escapes : Escapes[i].e = SubSeq(s, 1, 3)
         THEN With(decodeURIComponent(SubSeq(s, 4, Len(s))), LAMBDA r :
                 [ok |-> r.ok,
                  s |-> <<Escapes[CHOOSE i \in DOMAIN Escapes :
                                     Escapes[i].e = SubSeq(s, 1, 3)].c>> \o r.s])
    ELSE [ok |-> FALSE, s |-> <<>>]

RECURSIVE FormEncode(_)

\* The application/x-www-form-urlencoded byte serializer URLSearchParams
\* applies to names and values: a space becomes '+', a reserved character
\* its percent escape.
FormEncode(s) ==
    IF Len(s) = 0 THEN <<>>
    ELSE (IF Head(s) = " " THEN <<"+">>
          ELSE IF \E i \in DOMAIN Escapes : Escapes[i].c = Head(s)
               THEN Escapes[CHOOSE i \in DOMAIN Escapes : Escapes[i].c = Head(s)].e
               ELSE <<Head(s)>>)
         \o FormEncode(Tail(s))

\* String(new URLSearchParams(params)) for an object: name=value pairs of
\* its own properties in key order, joined by '&'.
URLSearchParams(h, params) ==
    LET entries == ForIn(h, params)
    IN Join([i \in DOMAIN entries |->
                FormEncode(entries[i].k) \o <<"=">>
                \o FormEncode(StringOf(Reify(h, entries[i].v)))], <<"&">>)

-----------------------------------------------------------------------------
(* Functions the caller and the platform supply *)

\* The ambient fetch.
fGlobalFetch == Fn(1)

\* transformRequest functions: one that returns undefined, two that return
\* the string data with a letter appended, and four that return the empty
\* string, 0, null and false.
fNoChange == Fn(11)
fAppendA == Fn(12)
fAppendB == Fn(13)
fEmpty == Fn(14)
fZero == Fn(15)
fNull == Fn(16)
fFalse == Fn(17)

\* A validateStatus predicate: status < 500.
fBelow500 == Fn(21)

\* A paramsSerializer: params => 'e=iamthelaw'.
fLaw == Fn(31)
sLaw == <<"e","=","i","a","m","t","h","e","l","a","w">>

\* f(data, headers) for a transformRequest function f.
ApplyTransform(f, data, headers) ==
    CASE f = fAppendA -> Str((IF data.t = "string" THEN data.s ELSE <<>>) \o <<"a">>)
      [] f = fAppendB -> Str((IF data.t = "string" THEN data.s ELSE <<>>) \o <<"b">>)
      [] f = fEmpty -> Str(<<>>)
      [] f = fZero -> Num(0)
      [] f = fNull -> Null
      [] f = fFalse -> Bool(FALSE)
      [] OTHER -> Undefined

\* validateStatus(status)
ApplyValidate(f, status) ==
    CASE f = fBelow500 -> Bool(status.t = "number" /\ status.r < 500)
      [] OTHER -> Undefined

\* paramsSerializer(params)
ApplySerializer(f, params) == IF f = fLaw THEN Str(sLaw) ELSE Undefined

-----------------------------------------------------------------------------
(* redaxios: the synchronous part, up to the call of the transport *)

\* let data = _data || options.data
SelectData(_data, optionsData) == IF Truthy(_data) THEN _data ELSE optionsData

RECURSIVE ApplyTransforms(_, _, _)

\* (options.transformRequest || []).map((f) => { data = f(data, options.headers) || data })
\* threw: an element that is not a function was called.
ApplyTransforms(fs, data, headers) ==
    IF Len(fs) = 0 THEN [threw |-> FALSE, data |-> data]
    ELSE IF Head(fs).t # "function" THEN [threw |-> TRUE, data |-> data]
    ELSE LET r == ApplyTransform(Head(fs), data, headers)
         IN ApplyTransforms(Tail(fs), IF Truthy(r) THEN r ELSE data, headers)

\* A body test that does not look for an append method.
NeedsJsonAnyObject(h, data) == Truthy(data) /\ typeof(data) = "object"

\* data && typeof data === 'object' && typeof data.append !== 'function'
NeedsJson(h, data) ==
    Truthy(data) /\ typeof(data) = "object" /\ typeof(Get(h, data, sAppend)) # "function"

\* The body handed to the transport: JSON.stringify(data) for a body that
\* NeedsJson, else data itself.
EncodeBody(h, data) == IF NeedsJson(h, data) THEN Str(JSONStringify(h, data)) ELSE data

\* customHeaders after the body step.
ContentTypeHeader(h, data, custom) ==
    IF NeedsJson(h, data) THEN SetKey(custom, sContentType, Str(sApplicationJson)) ELSE custom

\* Where '(^|; )' + name + '=' first matches in the cookie string: the index
\* of the name's first character, 0 when there is no match.
CookieIndex(str, name) ==
    LET At(i) == /\ (i = 1 \/ (i >= 3 /\ str[i - 2] = ";" /\ str[i - 1] = " "))
                 /\ i + Len(name) <= Len(str)
                 /\ SubSeq(str, i, i + Len(name)) = name \o <<"=">>
    IN IF \E i \in DOMAIN str : At(i)
       THEN CHOOSE i \in DOMAIN str : At(i) /\ \A j \in 1..(i - 1) : ~At(j)
       ELSE 0

RECURSIVE UpToSemicolon(_)

\* ([^;]*): the longest prefix without ';'.
UpToSemicolon(str) ==
    IF Len(str) = 0 \/ Head(str) = ";" THEN <<>>
    ELSE <<Head(str)>> \o UpToSemicolon(Tail(str))

\* typeof document !== 'undefined' &&
\*   document.cookie.match(RegExp('(^|; )' + options.xsrfCookieName + '=([^;]*)'))
\* found: m is truthy; value: m[2].
CookieMatch(ck, name) ==
    With(CookieIndex(ck.str, name), LAMBDA i :
       IF ~ck.doc \/ i = 0 THEN [found |-> FALSE, value |-> <<>>]
       ELSE [found |-> TRUE,
             value |-> UpToSemicolon(SubSeq(ck.str, i + Len(name) + 1, Len(ck.str)))])

\* customHeaders after the XSRF step; threw: decodeURIComponent threw.
XsrfHeader(h, ck, options, custom) ==
    With(CookieMatch(ck, StringOf(Reify(h, Get(h, options, sXsrfCookieName)))), LAMBDA m :
       IF ~m.found THEN [threw |-> FALSE, custom |-> custom]
       ELSE With(decodeURIComponent(m.value), LAMBDA d :
          IF ~d.ok THEN [threw |-> TRUE, custom |-> custom]
          ELSE [threw |-> FALSE,
                custom |-> SetKey(custom,
                                  StringOf(Reify(h, Get(h, options, sXsrfHeaderName))),
                                  Str(d.s))]))

\* if (options.auth) customHeaders.authorization = options.auth
AuthHeader(h, options, custom) ==
    IF Truthy(Get(h, options, sAuth))
    THEN SetKey(custom, sAuthorization, Get(h, options, sAuth))
    ELSE custom

\* url.replace(/^(?!.*\/\/)\/?(.*)$/, baseURL + '/$1'): a url with '//' in it
\* is left alone; otherwise one leading '/' is dropped and baseURL + '/' is
\* put in front.
BaseURL(url, baseURL) ==
    IF Contains(url, <<"/", "/">>) THEN url
    ELSE baseURL \o <<"/">> \o (IF Len(url) > 0 /\ Head(url) = "/" THEN Tail(url) ELSE url)

\* A divider that is always '?'.
DividerQuestion(url) == <<"?">>

\* const divider = ~url.indexOf('?') ? '&' : '?'
Divider(url) == IF indexOf(url, "?") # -1 THEN <<"&">> ELSE <<"?">>

\* The query string: paramsSerializer(params) if a serializer is given, else
\* new URLSearchParams(params).
Query(h, options) ==
    LET params == Get(h, options, sParams)
        ser == Get(h, options, sParamsSerializer)
    IN IF Truthy(ser) THEN StringOf(ApplySerializer(ser, params))
       ELSE URLSearchParams(h, params)

\* Lines 406-416: the url given to the transport, and the url after the
\* baseURL step (based).  threw: url is not a string
\* where a string method is called on it, or paramsSerializer is not callable.
ComposeURL(h, options, url) ==
    LET baseURL == Get(h, options, sBaseURL)
        params == Get(h, options, sParams)
        ser == Get(h, options, sParamsSerializer)
    IN IF (Truthy(baseURL) \/ Truthy(params)) /\ url.t # "string"
       THEN [threw |-> TRUE, url |-> url, based |-> url]
       ELSE IF Truthy(params) /\ Truthy(ser) /\ ser.t # "function"
       THEN [threw |-> TRUE, url |-> url, based |-> url]
       ELSE With(IF Truthy(baseURL) THEN Str(BaseURL(url.s, StringOf(Reify(h, baseURL))))
                 ELSE url, LAMBDA based :
          IF Truthy(params)
          THEN [threw |-> FALSE, based |-> based,
                url |-> Str(based.s \o Divider(based.s) \o Query(h, options))]
          ELSE [threw |-> FALSE, url |-> based, based |-> based])

\* A method that the options give whenever they name one.
MethodOfOptions(h, options, _method) ==
    IF Truthy(Get(h, options, sMethod)) THEN Get(h, options, sMethod) ELSE _method

\* method: _method || options.method
Method(h, options, _method) ==
    IF Truthy(_method) THEN _method ELSE Get(h, options, sMethod)

\* The headers of the transport descriptor.
TransportHeaders(h, options, custom) == deepMerge(h, Get(h, options, sHeaders), custom, TRUE)

\* credentials: options.withCredentials ? 'include' : 'same-origin'
Credentials(h, options) ==
    IF Truthy(Get(h, options, sWithCredentials)) THEN Str(sInclude) ELSE Str(sSameOrigin)

\* A dispatch that threw before it reached the transport.
Threw(h, config, e) ==
    [threw |-> TRUE, error |-> e, h |-> h, config |-> config, urlArg |-> Undefined,
     response |-> Undefined,
     options |-> Undefined, data |-> Undefined, custom |-> Undefined, fetchFunc |-> Undefined,
     based |-> Undefined, url |-> Undefined, method |-> Undefined, body |-> Undefined, headers |-> Undefined,
     credentials |-> Undefined]

\* redaxios(url, config, _method, _data) up to and including the call of the
\* transport, in heap h with the client's defaults dflts and the cookie store
\* ck.  The arguments are values of h.
redaxios(h, dflts, ck, url0, config0, _method, _data) ==
    LET config == IF url0.t # "string" THEN url0 ELSE config0
        url == IF url0.t # "string" THEN Get(h, config, sUrl) ELSE url0
    IN IF url0.t \in {"undefined", "null"} THEN Threw(h, config, TypeError)
       ELSE
       With(Alloc(h, Obj(<<P(sConfig, config)>>)), LAMBDA response :
       With(deepMerge(response.h, dflts, config, FALSE), LAMBDA options :
       With(Get(options.h, options.v, sTransformRequest), LAMBDA tr :
       IF Truthy(tr) /\ ~IsArray(options.h, tr) THEN Threw(options.h, config, TypeError)
       ELSE
       With(ApplyTransforms(IF IsArray(options.h, tr) THEN options.h[tr.r].elems ELSE <<>>,
                            SelectData(_data, Get(options.h, options.v, sData)),
                            Get(options.h, options.v, sHeaders)), LAMBDA data :
       IF data.threw THEN Threw(options.h, config, TypeError)
       ELSE
       With(XsrfHeader(options.h, ck, options.v,
                       ContentTypeHeader(options.h, data.data, <<>>)), LAMBDA xsrf :
       IF xsrf.threw THEN Threw(options.h, config, URIError)
       ELSE
       With(ComposeURL(options.h, options.v, url), LAMBDA u :
       IF u.threw THEN Threw(options.h, config, TypeError)
       ELSE
       With(IF Truthy(Get(options.h, options.v, sFetch)) THEN Get(options.h, options.v, sFetch)
            ELSE fGlobalFetch, LAMBDA fetchFunc :
       IF fetchFunc.t # "function" THEN Threw(options.h, config, TypeError)
       ELSE
       With(Alloc(options.h, Obj(AuthHeader(options.h, options.v, xsrf.custom))),
            LAMBDA customHeaders :
       With(TransportHeaders(customHeaders.h, options.v, customHeaders.v), LAMBDA headers :
          [threw |-> FALSE, error |-> Undefined, h |-> headers.h, config |-> config,
           urlArg |-> url, response |-> response.v, options |-> options.v,
           data |-> data.data, custom |-> customHeaders.v, fetchFunc |-> fetchFunc,
           based |-> u.based, url |-> u.url,
           method |-> Method(options.h, options.v, _method),
           body |-> EncodeBody(options.h, data.data), headers |-> headers.v,
           credentials |-> Credentials(options.h, options.v)])))))))))

-----------------------------------------------------------------------------
(* redaxios: the promise chain after the transport *)

\* obj[k] = v
SetProp(h, obj, k, v) == [h EXCEPT ![obj.r].props = SetKey(@, k, v)]

RECURSIVE CopyProps(_, _, _)

\* for (const i in res) if (typeof res[i] != 'function') response[i] = res[i]
CopyProps(h, response, entries) ==
    IF Len(entries) = 0 THEN h
    ELSE CopyProps(IF typeof(Head(entries).v) # "function"
                   THEN SetProp(h, response, Head(entries).k, Head(entries).v)
                   ELSE h,
                   response, Tail(entries))

\* const ok = options.validateStatus ? options.validateStatus(res.status) : res.ok
StatusOk(h, options, res) ==
    LET validateStatus == Get(h, options, sValidateStatus)
    IN IF Truthy(validateStatus) THEN ApplyValidate(validateStatus, Get(h, res, sStatus))
       ELSE Get(h, res, sOk)

\* The promise of call c settles: fulfilled or rejected with value v.
Settle(c, state, v) ==
    [c EXCEPT !.pc = "settled", !.state = state, !.value = v, !.settles = @ + 1]

\* .then(() => (ok ? response : Promise.reject(response)))
SettleByOk(c) ==
    IF Truthy(c.ok) THEN Settle(c, "fulfilled", c.response) ELSE Settle(c, "rejected", c.response)

\* A chain that wraps the transport's error in the envelope.
OnTransportErrorEnveloped(c, e) ==
    Settle([c EXCEPT !.transport = "rejected"], "rejected", c.response)

\* fetchFunc(...).then(onFulfilled) has no rejection handler, so the
\* transport's error e passes through to the returned promise.
OnTransportError(c, e) == Settle([c EXCEPT !.transport = "rejected"], "rejected", e)

\* if (options.responseType == 'stream') { response.data = res.body; return response }
StreamResult(h, c, res) ==
    [h |-> SetProp(h, c.response, sData, Get(h, res, sBody)),
     c |-> Settle(c, "fulfilled", c.response)]

\* The name of the body-read method: options.responseType || 'text'.
ReadMethod(h, options) ==
    LET rt == Get(h, options, sResponseType)
    IN IF Truthy(rt) THEN StringOf(Reify(h, rt)) ELSE sText

\* The callback of fetchFunc(...).then: lines 425-437, up to the call of the
\* body-read method.  A TypeError thrown in the callback rejects the promise.
OnResponse(h, c0, res) ==
    With([c0 EXCEPT !.res = res, !.transport = "resolved"], LAMBDA c :
    With(CopyProps(h, c.response, ForIn(h, res)), LAMBDA h1 :
    With(StatusOk(h1, c.options, res), LAMBDA ok :
    With(ReadMethod(h1, c.options), LAMBDA name :
       IF res.t \in {"undefined", "null"}
       THEN [h |-> h1, c |-> Settle(c, "rejected", TypeError)]
       ELSE IF /\ Truthy(Get(h, c.options, sValidateStatus))
               /\ Get(h, c.options, sValidateStatus).t # "function"
       THEN [h |-> h1, c |-> Settle(c, "rejected", TypeError)]
       ELSE IF Get(h1, c.options, sResponseType) = Str(sStream)
       THEN StreamResult(h1, [c EXCEPT !.ok = ok], res)
       ELSE IF Get(h1, res, name).t # "function"
       THEN [h |-> h1, c |-> Settle([c EXCEPT !.ok = ok], "rejected", TypeError)]
       ELSE [h |-> h1,
             c |-> [c EXCEPT !.ok = ok, !.pc = "reading", !.readAs = name,
                             !.reads = @ + 1]]))))

\* What the body-read method `name` of raw response res resolves with, as a
\* literal; ok is FALSE where it rejects (json() on a body that is not JSON).
ReadBody(h, res, name) ==
    LET text == IF IsObject(res) THEN h[res.r].slot ELSE <<>>
    IN CASE name = sJson -> JSONParse(text)
         [] name = sText -> [ok |-> TRUE, lit |-> Str(text)]
         [] OTHER -> [ok |-> TRUE, lit |-> [Lit("Blob", <<>>, <<>>) EXCEPT !.slot = text]]

\* A chain that stores what was read and parses nothing.
StoreDataRaw(h, response, data) == SetProp(h, response, sData, data)

\* .then((data) => { response.data = data; response.data = JSON.parse(data) })
\* A throwing JSON.parse leaves the first assignment in place.
StoreData(h, response, data) ==
    With(SetProp(h, response, sData, data), LAMBDA h1 :
    With(JSONParse(StringOf(Reify(h, data))), LAMBDA parsed :
       IF parsed.ok
       THEN With(Alloc(h1, parsed.lit), LAMBDA a : SetProp(a.h, response, sData, a.v))
       ELSE h1))

\* A call record: where the dispatch stands (pc), the arguments as the caller
\* wrote them (args), what redaxios computed, the
\* transport's and the body read's promises (transport, read: pending/none,
\* resolved, rejected) and the state of the promise redaxios returned.
NewCall(r, a) ==
    [pc |-> IF r.threw THEN "threw" ELSE "fetching", args |-> a,
     config |-> r.config, urlArg |-> r.urlArg, response |-> r.response, options |-> r.options,
     data |-> r.data, custom |-> r.custom, fetchFunc |-> r.fetchFunc,
     based |-> r.based, url |-> r.url, method |-> r.method, body |-> r.body, headers |-> r.headers,
     credentials |-> r.credentials,
     fetched |-> IF r.threw THEN 0 ELSE 1, reads |-> 0, readAs |-> <<>>,
     transport |-> "pending", read |-> "none", res |-> Undefined, ok |-> Undefined,
     state |-> IF r.threw THEN "threw" ELSE "pending",
     value |-> IF r.threw THEN r.error ELSE Undefined, settles |-> 0]

-----------------------------------------------------------------------------
(* Bounds and inputs *)

\* Operations on the client in one behaviour: calls of redaxios and direct
\* applications of deepMerge.
MaxCalls == 1

\* At most MaxInFlight calls where calls overlap, and MaxAssigns assignments
\* to the client's defaults property.
MaxInFlight == 2
MaxAssigns == 1

RECURSIVE Present(_)

\* The properties that are given: an option left out is no property at all.
Present(props) ==
    IF Len(props) = 0 THEN <<>>
    ELSE (IF Head(props).v = Undefined THEN <<>> ELSE <<Head(props)>>) \o Present(Tail(props))

\* A configuration object with the given options.
Config(props) == Obj(Present(props))

\* An argument list of redaxios: get(url, config) is redaxios(url, config, 'get'),
\* post(url, data, config) is redaxios(url, config, 'post', data).
Args(url, config, method, data) == [url |-> url, config |-> config, method |-> method, data |-> data]

sGet == <<"g","e","t">>
sPost == <<"p","o","s","t">>
sFoo == <<"/","f","o","o">>
sYep == <<"y","e","p">>
sHelloWorldJson == <<"{","\"","h","e","l","l","o","\"",":","\"","w","o","r","l","d","\"","}">>

\* The transport's own error.
NetworkError == Err(<<"N","e","t","w","o","r","k","E","r","r","o","r">>)

\* A raw response of the transport with the given status, ok flag and body text.
RawResponse(status, ok, text) ==
    [Lit("Response",
         <<P(sOk, Bool(ok)), P(sStatus, Num(status)),
           P(sBody, Lit("ReadableStream", <<>>, <<>>))>>, <<>>)
     EXCEPT !.slot = text]

RawResponses ==
    << RawResponse(200, TRUE, sHelloWorldJson), RawResponse(200, TRUE, sYep),
       RawResponse(200, TRUE, <<"[","1","]">>),
       RawResponse(404, FALSE, sHelloWorldJson), RawResponse(404, FALSE, sYep),
       RawResponse(500, FALSE, sYep), Undefined >>

ResponseTypes == <<Undefined, Str(sText), Str(sJson), Str(sStream), Str(sBlob)>>
Validators == <<Undefined, fBelow500>>

\* Calls that differ in how the response is read and judged, and redaxios()
\* with no argument, which throws before it reaches the transport.
LifecycleArgs ==
    [i \in 1..(Len(ResponseTypes) * Len(Validators)) |->
        Args(Str(sFoo),
             Config(<<P(sResponseType, ResponseTypes[((i - 1) % Len(ResponseTypes)) + 1]),
                      P(sValidateStatus, Validators[((i - 1) \div Len(ResponseTypes)) + 1])>>),
             Str(sGet), Undefined)]
    \o << Args(Str(sFoo), Undefined, Undefined, Undefined),
          Args(Undefined, Undefined, Undefined, Undefined) >>

\* document.cookie: doc is FALSE where there is no document.
NoCookie == [doc |-> TRUE, str |-> <<>>]
sXsrf == <<"x","s","r","f">>
sXXsrfToken == <<"X","-","X","s","r","f">>
XsrfCookie == [doc |-> TRUE, str |-> <<"a","=","1",";"," ","x","s","r","f","=","t","%","2","0","k">>]

xFoo == <<"x","-","f","o","o">>
XFoo == <<"X","-","F","o","o">>
sAccept == <<"A","c","c","e","p","t">>
sContentTypeMixed == <<"C","o","n","t","e","n","t","-","T","y","p","e">>
sAuthorizationUpper == <<"A","U","T","H","O","R","I","Z","A","T","I","O","N">>
sTextPlain == <<"t","e","x","t","/","p","l","a","i","n">>
sTextCsv == <<"t","e","x","t","/","c","s","v">>
sTok == <<"t","o","k">>
sMine == <<"m","i","n","e">>

\* Defaults a client is created with, for the request-side checks.
RequestDefaults ==
    << Obj(<<>>),
       Obj(<<P(sHeaders, Obj(<<P(XFoo, Str(<<"1">>)), P(sAccept, Str(<<"a">>))>>))>>),
       Obj(<<P(sHeaders, Obj(<<P(sContentTypeMixed, Str(sTextPlain))>>)),
             P(sAuth, Str(sTok))>>) >>

\* Per-call headers: none, one key, two keys that differ in case only, an
\* explicit content-type, an explicit authorization.
RequestHeaders ==
    << Undefined,
       Obj(<<P(xFoo, Str(<<"2">>))>>),
       Obj(<<P(xFoo, Str(<<"2">>)), P(XFoo, Str(<<"4">>))>>),
       Obj(<<P(sContentTypeMixed, Str(sTextCsv))>>),
       Obj(<<P(sAuthorizationUpper, Str(sMine)), P(sAccept, Str(<<"b">>))>>) >>

\* Bodies: none, a string, a plain object, an array, a FormData, a Blob, null.
RequestBodies ==
    << Undefined, Str(sYep), Obj(<<P(sHello, Str(sWorld))>>), Arr(<<Num(1)>>),
       Lit("FormData", <<>>, <<>>), Lit("Blob", <<>>, <<>>), Null >>

\* Whether the call asks for the XSRF header and gives auth.
RequestExtras ==
    << <<>>,
       <<P(sXsrfCookieName, Str(sXsrf)), P(sXsrfHeaderName, Str(sXXsrfToken))>>,
       <<P(sAuth, Str(sMine))>> >>

\* post(url, data, config) over the headers, bodies and extras above.
RequestArgs ==
    [i \in 1..(Len(RequestHeaders) * Len(RequestBodies) * Len(RequestExtras)) |->
        LET hd == RequestHeaders[((i - 1) % Len(RequestHeaders)) + 1]
            bd == RequestBodies[(((i - 1) \div Len(RequestHeaders)) % Len(RequestBodies)) + 1]
            ex == RequestExtras[((i - 1) \div (Len(RequestHeaders) * Len(RequestBodies))) + 1]
        IN Args(Str(sFoo), Config(<<P(sHeaders, hd)>> \o ex), Str(sPost), bd)]

sBar == <<"/","b","a","r">>
sBarRel == <<"b","a","r">>
sHttpFoo == <<"h","t","t","p",":","/","/","f","o","o">>
sHttpFooSlash == <<"h","t","t","p",":","/","/","f","o","o","/">>
sFooQuery == <<"/","f","o","o","?","c","=","4","2">>
sAbsolute == <<"h","t","t","p",":","/","/","x","/","y">>

\* Defaults a client is created with, for the URL checks.
UrlDefaults ==
    << Obj(<<>>),
       Obj(<<P(sBaseURL, Str(sHttpFoo))>>),
       Obj(<<P(sParams, Obj(<<P(<<"k">>, Num(7))>>))>>) >>

Urls == <<Str(sBar), Str(sBarRel), Str(sFooQuery), Str(sAbsolute), Str(<<>>)>>
BaseURLs == <<Undefined, Str(sHttpFoo), Str(sFoo), Str(sHttpFooSlash)>>
ParamSets ==
    << Undefined,
       Obj(<<P(<<"a">>, Num(1)), P(<<"b">>, Bool(TRUE))>>),
       Obj(<<P(<<"q">>, Str(<<"a"," ","b","&","c">>))>>),
       Obj(<<>>) >>
Serializers == <<Undefined, fLaw>>

\* get(url, config) over the urls, base URLs, params and serializers above.
UrlArgs ==
    [i \in 1..(Len(Urls) * Len(BaseURLs) * Len(ParamSets) * Len(Serializers)) |->
        LET u == Urls[((i - 1) % Len(Urls)) + 1]
            b == BaseURLs[(((i - 1) \div Len(Urls)) % Len(BaseURLs)) + 1]
            ps == ParamSets[(((i - 1) \div (Len(Urls) * Len(BaseURLs))) % Len(ParamSets)) + 1]
            sr == Serializers[((i - 1) \div (Len(Urls) * Len(BaseURLs) * Len(ParamSets))) + 1]
        IN Args(u, Config(<<P(sBaseURL, b), P(sParams, ps), P(sParamsSerializer, sr)>>),
                Str(sGet), Undefined)]

\* Nested configurations: mappings in mappings, sequences, and null and a
\* number where other configurations have a mapping.
MergeConfigs ==
    << Obj(<<P(sHeaders, Obj(<<P(XFoo, Str(<<"2">>))>>)),
             P(sTransformRequest, Arr(<<fAppendA>>))>>),
       Obj(<<P(sHeaders, Obj(<<P(xFoo, Str(<<"4">>)), P(sAccept, Str(<<"a">>))>>)),
             P(sTransformRequest, Arr(<<fAppendB, fNoChange>>)),
             P(sParams, Obj(<<P(<<"a">>, Num(1))>>))>>),
       Obj(<<P(sParams, Obj(<<P(<<"b">>, Bool(TRUE))>>)),
             P(sData, Obj(<<P(sHello, Obj(<<P(sWorld, Num(1))>>))>>))>>),
       Obj(<<>>),
       Obj(<<P(sHeaders, Null), P(sParams, Num(0)), P(sData, Null)>>) >>

MergeArgs ==
    [i \in DOMAIN MergeConfigs |-> Args(Str(sFoo), MergeConfigs[i], Str(sPost), Undefined)]
    \o << Args(Str(sFoo), Undefined, Str(sGet), Undefined),
          Args(MergeConfigs[2], Undefined, Undefined, Undefined) >>

-----------------------------------------------------------------------------
(* Actions *)

\* create(defaults): the client with its defaults object; no call made yet.
\* The caller also holds the objects written as `others`.
InitWith(d, others, ck) ==
    \E a \in {Alloc(<<>>, d)} : \E b \in {AllocSeq(a.h, others)} :
       /\ heap = b.h
       /\ held = b.vs
       /\ defaults = a.v
       /\ client = [defaults |-> a.v, writes |-> 0]
       /\ cookie = ck
       /\ calls = <<>>
       /\ merges = <<>>

\* The caller builds the arguments and calls redaxios (or a shorthand).
Call(a) ==
    /\ \E a1 \in {Alloc(heap, a.url)} : \E a2 \in {Alloc(a1.h, a.config)} :
          \E a3 \in {Alloc(a2.h, a.data)} :
             \E r \in {redaxios(a3.h, defaults, cookie, a1.v, a2.v, a.method, a3.v)} :
                /\ heap' = r.h
                /\ calls' = Append(calls, NewCall(r, a))
    /\ UNCHANGED <<defaults, client, cookie, merges, held>>

\* One call of the client at a time.
Dispatch(a) ==
    /\ Len(calls) + Len(merges) < MaxCalls
    /\ Call(a)

\* The caller writes a new object and assigns it to the client's defaults
\* property: client.defaults = d.
AssignDefaults(d) ==
    /\ client.writes < MaxAssigns
    /\ \E a \in {Alloc(heap, d)} :
          /\ heap' = a.h
          /\ client' = [defaults |-> a.v, writes |-> client.writes + 1]
    /\ UNCHANGED <<defaults, cookie, calls, merges, held>>

\* The transport's promise resolves with a raw response.
TransportResolve(i, raw) ==
    /\ calls[i].pc = "fetching"
    /\ \E a \in {Alloc(heap, raw)} : \E r \in {OnResponse(a.h, calls[i], a.v)} :
          /\ heap' = r.h
          /\ calls' = [calls EXCEPT ![i] = r.c]
    /\ UNCHANGED <<defaults, client, cookie, merges, held>>

\* The transport's promise rejects with e.
TransportReject(i, e) ==
    /\ calls[i].pc = "fetching"
    /\ calls' = [calls EXCEPT ![i] = OnTransportError(@, e)]
    /\ UNCHANGED <<heap, defaults, client, cookie, merges, held>>

\* The body-read promise resolves.
BodyReadResolve(i) ==
    /\ calls[i].pc = "reading"
    /\ \E b \in {ReadBody(heap, calls[i].res, calls[i].readAs)} :
          /\ b.ok
          /\ \E a \in {Alloc(heap, b.lit)} :
                heap' = StoreData(a.h, calls[i].response, a.v)
          /\ calls' = [calls EXCEPT ![i] = SettleByOk([@ EXCEPT !.read = "resolved"])]
    /\ UNCHANGED <<defaults, client, cookie, merges, held>>

\* A chain without .catch(Object): the body read's error rejects the
\* returned promise.
BodyReadRejectSurfaced(i) ==
    /\ calls[i].pc = "reading"
    /\ calls' = [calls EXCEPT ![i] = Settle([@ EXCEPT !.read = "rejected"], "rejected",
                                            Err(<<"S","y","n","t","a","x","E","r","r","o","r">>))]
    /\ UNCHANGED <<heap, defaults, client, cookie, merges, held>>

\* The body-read promise rejects: .catch(Object) swallows the error.
BodyReadReject(i) ==
    /\ calls[i].pc = "reading"
    /\ calls' = [calls EXCEPT ![i] = SettleByOk([@ EXCEPT !.read = "rejected"])]
    /\ UNCHANGED <<heap, defaults, client, cookie, merges, held>>

\* A value, the objects among its properties or elements, and undefined.
Operands(h, v) ==
    {Undefined, v} \cup {ForIn(h, v)[i].v : i \in {j \in DOMAIN ForIn(h, v) : IsObject(ForIn(h, v)[j].v)}}

\* deepMerge(opts, overrides, lowerCase) applied to values of the heap.
DeepMergeCall(opts, overrides, lowerCase) ==
    /\ Len(calls) + Len(merges) < MaxCalls
    /\ \E m \in {deepMerge(heap, opts, overrides, lowerCase)} :
          /\ heap' = m.h
          /\ merges' = Append(merges, [opts |-> opts, overrides |-> overrides,
                                       lowerCase |-> lowerCase, out |-> m.v])
    /\ UNCHANGED <<defaults, client, cookie, calls, held>>

-----------------------------------------------------------------------------
(* Specifications *)

\* The life of a dispatch: the transport and the body read complete in any way.
Init == InitWith(Obj(<<>>), <<>>, NoCookie)

Next ==
    \/ \E k \in DOMAIN LifecycleArgs : Dispatch(LifecycleArgs[k])
    \/ \E i \in DOMAIN calls : \E k \in DOMAIN RawResponses : TransportResolve(i, RawResponses[k])
    \/ \E i \in DOMAIN calls : TransportReject(i, NetworkError)
    \/ \E i \in DOMAIN calls : BodyReadResolve(i)
    \/ \E i \in DOMAIN calls : BodyReadReject(i)

Spec == Init /\ [][Next]_vars

\* The transport descriptor as a function of defaults, headers, body and auth.
InitRequest == \E k \in DOMAIN RequestDefaults : InitWith(RequestDefaults[k], <<>>, XsrfCookie)

NextRequest == \E k \in DOMAIN RequestArgs : Dispatch(RequestArgs[k])

SpecRequest == InitRequest /\ [][NextRequest]_vars

\* The transport url as a function of url, baseURL, params and paramsSerializer.
InitUrl == \E k \in DOMAIN UrlDefaults : InitWith(UrlDefaults[k], <<>>, NoCookie)

NextUrl == \E k \in DOMAIN UrlArgs : Dispatch(UrlArgs[k])

SpecUrl == InitUrl /\ [][NextUrl]_vars

\* deepMerge on its own and inside a dispatch, over nested configurations:
\* the client's defaults and a configuration the caller holds.
InitMerge ==
    \E k \in DOMAIN MergeConfigs : \E m \in DOMAIN MergeConfigs :
        InitWith(MergeConfigs[k], <<MergeConfigs[m]>>, NoCookie)

NextMerge ==
    \/ \E opts \in Operands(heap, defaults) : \E overrides \in Operands(heap, held[1]) :
          \E lowerCase \in BOOLEAN : DeepMergeCall(opts, overrides, lowerCase)
    \/ \E k \in DOMAIN MergeArgs : Dispatch(MergeArgs[k])
    \/ Dispatch(Args(Str(sFoo), held[1], Str(sPost), Undefined))
    \/ \E i \in DOMAIN calls : TransportResolve(i, RawResponses[1])
    \/ \E i \in DOMAIN calls : TransportReject(i, NetworkError)
    \/ \E i \in DOMAIN calls : BodyReadResolve(i)
    \/ \E i \in DOMAIN calls : BodyReadReject(i)

SpecMerge == InitMerge /\ [][NextMerge]_vars

\* Overlapping calls on one client whose defaults property the caller may
\* assign: the defaults it was created with, the object assigned later, the
\* calls made.
ClientDefaults ==
    << Obj(<<P(sHeaders, Obj(<<P(XFoo, Str(<<"1">>))>>)),
             P(sTransformRequest, Arr(<<fAppendA>>))>>),
       Obj(<<>>) >>

AssignedDefaults ==
    Obj(<<P(sBaseURL, Str(sHttpFoo)), P(sHeaders, Obj(<<P(sAccept, Str(<<"a">>))>>))>>)

ClientArgs ==
    << Args(Str(sFoo), Undefined, Str(sGet), Undefined),
       Args(Str(sFoo), Config(<<P(sHeaders, Obj(<<P(xFoo, Str(<<"2">>))>>))>>),
            Str(sPost), Str(sYep)) >>

InitClient == \E k \in DOMAIN ClientDefaults : InitWith(ClientDefaults[k], <<>>, NoCookie)

NextClient ==
    \/ \E k \in DOMAIN ClientArgs : Len(calls) < MaxInFlight /\ Call(ClientArgs[k])
    \/ AssignDefaults(AssignedDefaults)
    \/ \E i \in DOMAIN calls : \E k \in {1, 5} : TransportResolve(i, RawResponses[k])
    \/ \E i \in DOMAIN calls : BodyReadResolve(i)

SpecClient == InitClient /\ [][NextClient]_vars

\* The shorthands: get/delete/head/options take (url, config), post/put/patch
\* take (url, data, config).
BodylessVerbs == <<sGet, <<"d","e","l","e","t","e">>, <<"h","e","a","d">>,
                   <<"o","p","t","i","o","n","s">>>>
BodyVerbs == <<sPost, <<"p","u","t">>, <<"p","a","t","c","h">>>>

\* redaxios[verb](url, config) and redaxios[verb](url, data, config)
Bodyless(verb, url, config) == Args(url, config, Str(verb), Undefined)
WithBody(verb, url, data, config) == Args(url, config, Str(verb), data)

\* Configurations that name a method, or none.
MethodConfigs == <<Undefined, Obj(<<P(sMethod, Str(sPost))>>), Obj(<<P(sMethod, Str(sGet))>>)>>

\* Every shorthand and the direct call, over MethodConfigs.
MethodArgs ==
    [i \in 1..(Len(BodylessVerbs) * Len(MethodConfigs)) |->
        Bodyless(BodylessVerbs[((i - 1) % Len(BodylessVerbs)) + 1], Str(sFoo),
                 MethodConfigs[((i - 1) \div Len(BodylessVerbs)) + 1])]
    \o [i \in 1..(Len(BodyVerbs) * Len(MethodConfigs)) |->
        WithBody(BodyVerbs[((i - 1) % Len(BodyVerbs)) + 1], Str(sFoo), Str(sYep),
                 MethodConfigs[((i - 1) \div Len(BodyVerbs)) + 1])]
    \o [i \in DOMAIN MethodConfigs |-> Args(Str(sFoo), MethodConfigs[i], Undefined, Undefined)]

\* The data argument of post: absent, null, '', 0, false, a string; over a
\* config with a data option and one without.
DataArguments == <<Undefined, Null, Str(<<>>), Num(0), Bool(FALSE), Str(sYep)>>
DataConfigs == <<Undefined, Obj(<<P(sData, Str(<<"x">>))>>)>>
DataArgs ==
    [i \in 1..(Len(DataArguments) * Len(DataConfigs)) |->
        WithBody(sPost, Str(sFoo), DataArguments[((i - 1) % Len(DataArguments)) + 1],
                 DataConfigs[((i - 1) \div Len(DataArguments)) + 1])]

\* transformRequest sequences of a call.
Transforms ==
    << <<fAppendA, fAppendB>>, <<fAppendB, fAppendA>>, <<fNoChange, fAppendA>>,
       <<fEmpty>>, <<fZero>>, <<fNull>>, <<fFalse>>, <<fAppendA, fEmpty, fAppendB>> >>
TransformArgs ==
    [i \in DOMAIN Transforms |->
        WithBody(sPost, Str(sFoo), Str(sYep),
                 Obj(<<P(sTransformRequest, Arr(Transforms[i])),
                       P(sHeaders, Obj(<<P(xFoo, Str(<<"2">>))>>))>>))]

\* Calls that give both XSRF options, the cookie name only, the header name
\* only.
XsrfArgs ==
    << Bodyless(sGet, Str(sFoo), Obj(<<P(sXsrfCookieName, Str(sXsrf)),
                                       P(sXsrfHeaderName, Str(sXXsrfToken))>>)),
       Bodyless(sGet, Str(sFoo), Obj(<<P(sXsrfCookieName, Str(sXsrf))>>)),
       Bodyless(sGet, Str(sFoo), Obj(<<P(sXsrfHeaderName, Str(sXXsrfToken))>>)) >>

CallArgs == MethodArgs \o DataArgs \o TransformArgs \o XsrfArgs

\* Defaults of the client: none, a method and data, a transformRequest.
CallDefaults ==
    << Obj(<<>>),
       Obj(<<P(sMethod, Str(<<"p","u","t">>)), P(sData, Str(<<"d">>))>>),
       Obj(<<P(sTransformRequest, Arr(<<fAppendB>>))>>) >>

\* document.cookie: no document, the named cookie among others, cookies whose
\* names only contain the name, a cookie named 'undefined', and one whose
\* value is no valid percent-encoding.
CookieStores ==
    << [doc |-> FALSE, str |-> <<>>],
       XsrfCookie,
       [doc |-> TRUE, str |-> <<"x","s","r","f","x","=","1",";"," ","a","x","s","r","f","=","2">>],
       [doc |-> TRUE, str |-> <<"a","=","1",";"," ","u","n","d","e","f","i","n","e","d","=","7">>],
       [doc |-> TRUE, str |-> <<"u","n","d","e","f","i","n","e","d","=","%","z">>] >>

InitCalls ==
    \/ \E k \in DOMAIN CallDefaults : InitWith(CallDefaults[k], <<>>, NoCookie)
    \/ \E k \in DOMAIN CookieStores : InitWith(Obj(<<>>), <<>>, CookieStores[k])

NextCalls == \E k \in DOMAIN CallArgs : Dispatch(CallArgs[k])

SpecCalls == InitCalls /\ [][NextCalls]_vars

-----------------------------------------------------------------------------
(* Properties of the response path, under Spec *)

\* The status check passes for call c: validateStatus(status) is true where
\* a predicate is configured, else the raw response's ok flag is true.
Passes(c) ==
    LET validateStatus == Get(heap, c.options, sValidateStatus)
    IN IF validateStatus # Undefined
       THEN ApplyValidate(validateStatus, Get(heap, c.res, sStatus)) = Bool(TRUE)
       ELSE Get(heap, c.res, sOk) = Bool(TRUE)

ValidJson(text) == \E d \in JsonDocs : StringifyLit(d) = text

\* The document a JSON text denotes.
JsonValue(text) == CHOOSE d \in JsonDocs : StringifyLit(d) = text

\* The body text of the raw response of call c.
BodyText(c) == heap[c.res.r].slot

\* The value the body text denotes when decoded by the named method.
Decoded(text, name) ==
    CASE name = sJson -> JsonValue(text)
      [] name = sText -> IF ValidJson(text) THEN JsonValue(text) ELSE Str(text)
      [] OTHER -> [Lit("Blob", <<>>, <<>>) EXCEPT !.slot = text]

\* The data of the envelope of call c, as a structure.
EnvelopeData(c) == Reify(heap, Get(heap, c.response, sData))

\* C1: once the transport has resolved and the body read has completed, the
\* dispatch has settled exactly once: fulfilled with the envelope when the
\* status check passes, else rejected with that same envelope, whose status is
\* the raw response's status and whose data holds the decoded body.
C1_SettlesByStatusCheck ==
    \A i \in DOMAIN calls :
        LET c == calls[i]
        IN (c.transport = "resolved" /\ c.read # "none") =>
              /\ c.pc = "settled"
              /\ c.settles = 1
              /\ c.value = c.response
              /\ c.state = IF Passes(c) THEN "fulfilled" ELSE "rejected"
              /\ Get(heap, c.response, sStatus) = Get(heap, c.res, sStatus)
              /\ (c.read = "resolved" => EnvelopeData(c) = Decoded(BodyText(c), c.readAs))

\* C1 without its last clause: settlement, envelope identity and status.
C1_Settlement ==
    \A i \in DOMAIN calls :
        LET c == calls[i]
        IN (c.transport = "resolved" /\ c.read # "none") =>
              /\ c.pc = "settled"
              /\ c.settles = 1
              /\ c.value = c.response
              /\ c.state = IF Passes(c) THEN "fulfilled" ELSE "rejected"
              /\ Get(heap, c.response, sStatus) = Get(heap, c.res, sStatus)

\* get('/foo', {responseType: 'json'}) answered 200 with body [1]: json()
\* gave the array, JSON.parse of its string form '1' then gave the number.
C1_ParsedTwice ==
    \E i \in DOMAIN calls :
        /\ calls[i].read = "resolved"
        /\ calls[i].readAs = sJson
        /\ BodyText(calls[i]) = <<"[", "1", "]">>
        /\ EnvelopeData(calls[i]) = Num(1)

C7_TransportRejectionPassesThrough ==
    \A i \in DOMAIN calls :
        LET c == calls[i]
        IN /\ c.fetched = IF c.pc = "threw" THEN 0 ELSE 1
           /\ (c.transport = "rejected" =>
                  /\ c.pc = "settled"
                  /\ c.state = "rejected"
                  /\ c.value = NetworkError
                  /\ c.settles = 1
                  /\ c.fetched = 1
                  /\ c.reads = 0
                  /\ ~HasKey(heap[c.response.r].props, sStatus)
                  /\ ~HasKey(heap[c.response.r].props, sData))

C7_Witness ==
    \E i \in DOMAIN calls :
        calls[i].transport = "rejected" /\ calls[i].value = NetworkError

\* C8: with responseType 'stream' the envelope's data is the raw response's
\* body stream and no body-read method is called, and the dispatch still
\* resolves when the status check passes and rejects with the envelope when
\* it fails.
C8_StreamKeepsStatusCheck ==
    \A i \in DOMAIN calls :
        LET c == calls[i]
        IN (/\ c.transport = "resolved"
            /\ IsObject(c.res)
            /\ Get(heap, c.options, sResponseType) = Str(sStream)) =>
              /\ c.pc = "settled"
              /\ c.reads = 0
              /\ Get(heap, c.response, sData) = Get(heap, c.res, sBody)
              /\ c.value = c.response
              /\ c.state = IF Passes(c) THEN "fulfilled" ELSE "rejected"

\* A 404 with responseType 'stream' and no validateStatus: fulfilled.
C8_Stream404Fulfilled ==
    \E i \in DOMAIN calls :
        /\ Get(heap, calls[i].options, sResponseType) = Str(sStream)
        /\ Get(heap, calls[i].res, sStatus) = Num(404)
        /\ ~Passes(calls[i])
        /\ calls[i].state = "fulfilled"

\* The part of C8 the code keeps: the stream is the data, unread, and the
\* promise settles with the envelope.
C8_StreamUnread ==
    \A i \in DOMAIN calls :
        LET c == calls[i]
        IN (/\ c.transport = "resolved"
            /\ IsObject(c.res)
            /\ Get(heap, c.options, sResponseType) = Str(sStream)) =>
              /\ c.pc = "settled"
              /\ c.reads = 0
              /\ Get(heap, c.response, sData) = Get(heap, c.res, sBody)
              /\ c.value = c.response

-----------------------------------------------------------------------------
(* Properties of the transport descriptor, under SpecRequest *)

\* The headers mapping call c passed to the transport.
SentHeaders(c) == heap[c.headers.r].props

\* The headers the caller wrote: in the per-call config, in the defaults.
PerCallHeaders(c) == ForIn(heap, Get(heap, c.config, sHeaders))
DefaultHeaders == ForIn(heap, Get(heap, defaults, sHeaders))

\* A mapping gives the case-folded name under some casing.
Gives(props, name) == \E i \in DOMAIN props : toLowerCase(props[i].k) = name

\* The value of the last key of the mapping that folds to name.
LastGiven(props, name) ==
    LET i == CHOOSE j \in DOMAIN props :
                /\ toLowerCase(props[j].k) = name
                /\ \A k \in DOMAIN props : toLowerCase(props[k].k) = name => k <= j
    IN props[i].v

\* The explicitly supplied value of a header: per-call first, else default,
\* undefined where neither gives it.
Explicit(c, name) ==
    IF Gives(PerCallHeaders(c), name) THEN LastGiven(PerCallHeaders(c), name)
    ELSE IF Gives(DefaultHeaders, name) THEN LastGiven(DefaultHeaders, name)
    ELSE Undefined

ExplicitNames(c) ==
    {toLowerCase(PerCallHeaders(c)[i].k) : i \in DOMAIN PerCallHeaders(c)}
    \cup {toLowerCase(DefaultHeaders[i].k) : i \in DOMAIN DefaultHeaders}

\* C3: the headers passed to the transport have only lower-cased keys, one
\* entry per case-folded name, whose value is the per-call value if the
\* per-call config gives the name under any casing (the later of two such
\* keys) and the default value otherwise.
C3_HeadersCaseInsensitive ==
    \A i \in DOMAIN calls :
        LET c == calls[i]
            H == SentHeaders(c)
        IN c.pc # "threw" =>
              /\ \A j \in DOMAIN H : H[j].k = toLowerCase(H[j].k)
              /\ \A j, k \in DOMAIN H : H[j].k = H[k].k => j = k
              /\ \A name \in ExplicitNames(c) :
                    HasKey(H, name) /\ GetKey(H, name) = Explicit(c, name)

\* The names the dispatch derives a header for on its own.
Derived(c) ==
    {toLowerCase(heap[c.custom.r].props[i].k) : i \in DOMAIN heap[c.custom.r].props}

\* C3 for the names the dispatch derives no header for.
C3_ExceptDerived ==
    \A i \in DOMAIN calls :
        LET c == calls[i]
            H == SentHeaders(c)
        IN c.pc # "threw" =>
              /\ \A j \in DOMAIN H : H[j].k = toLowerCase(H[j].k)
              /\ \A j, k \in DOMAIN H : H[j].k = H[k].k => j = k
              /\ \A name \in ExplicitNames(c) \ Derived(c) :
                    HasKey(H, name) /\ GetKey(H, name) = Explicit(c, name)

\* A client created with auth 'tok'; the call gives AUTHORIZATION: 'mine' in
\* its headers: the transport got authorization: 'tok'.
C3_DerivedOverwrites ==
    \E i \in DOMAIN calls :
        /\ Explicit(calls[i], sAuthorization) = Str(sMine)
        /\ GetKey(SentHeaders(calls[i]), sAuthorization) = Str(sTok)

PlainBody(d) == IsObject(d) /\ heap[d.r].cls \in {"Object", "Array"}
FormDataLike(d) == IsObject(d) /\ typeof(Get(heap, d, sAppend)) = "function"

\* C4: a plain object body is sent as its JSON string with content-type
\* application/json; a FormData-like body is sent as the same value, and a
\* string or absent body unchanged, both with no content-type other than
\* the one the caller supplied.
C4_BodyEncoding ==
    \A i \in DOMAIN calls :
        LET c == calls[i]
            H == SentHeaders(c)
        IN c.pc # "threw" =>
              /\ PlainBody(c.data) =>
                    /\ c.body = Str(StringifyLit(Reify(heap, c.data)))
                    /\ GetKey(H, sContentType) = Str(sApplicationJson)
              /\ FormDataLike(c.data) =>
                    /\ c.body = c.data
                    /\ GetKey(H, sContentType) = Explicit(c, sContentType)
              /\ c.data.t \in {"string", "undefined"} =>
                    /\ c.body = c.data
                    /\ GetKey(H, sContentType) = Explicit(c, sContentType)

\* post('/foo', {hello: 'world'}) reached the transport as JSON text.
C4_Witness ==
    \E i \in DOMAIN calls :
        /\ PlainBody(calls[i].data)
        /\ calls[i].body = Str(sHelloWorldJson)
        /\ GetKey(SentHeaders(calls[i]), sContentType) = Str(sApplicationJson)

\* C5: when the body is a plain object and the default or per-call headers
\* give a content-type under any casing, the headers passed to the transport
\* carry that content-type, not application/json.
C5_ExplicitContentTypeWins ==
    \A i \in DOMAIN calls :
        LET c == calls[i]
        IN (c.pc # "threw" /\ PlainBody(c.data) /\ Explicit(c, sContentType) # Undefined) =>
              GetKey(SentHeaders(c), sContentType) = Explicit(c, sContentType)

\* post('/foo', {hello: 'world'}, {headers: {'Content-Type': 'text/csv'}})
\* reached the transport with content-type application/json.
C5_JsonOverwrites ==
    \E i \in DOMAIN calls :
        /\ PlainBody(calls[i].data)
        /\ Explicit(calls[i], sContentType) = Str(sTextCsv)
        /\ GetKey(SentHeaders(calls[i]), sContentType) = Str(sApplicationJson)

-----------------------------------------------------------------------------
(* Properties of the transport url, under SpecUrl *)

RECURSIVE StripTrailingSlashes(_), StripLeadingSlashes(_)

StripTrailingSlashes(s) ==
    IF Len(s) > 0 /\ s[Len(s)] = "/" THEN StripTrailingSlashes(SubSeq(s, 1, Len(s) - 1)) ELSE s

StripLeadingSlashes(s) ==
    IF Len(s) > 0 /\ Head(s) = "/" THEN StripLeadingSlashes(Tail(s)) ELSE s

\* baseURL and url joined by exactly one '/'.
JoinedByOneSlash(baseURL, url) ==
    StripTrailingSlashes(baseURL) \o <<"/">> \o StripLeadingSlashes(url)

IsPrefix(p, s) == Len(p) <= Len(s) /\ SubSeq(s, 1, Len(p)) = p

\* C9: with baseURL set and a url without '//', the transport's url is
\* baseURL and url joined by exactly one '/', whether or not baseURL ends
\* with '/' or url starts with '/'; an absolute url is passed unchanged.
C9_BaseURLJoin ==
    \A i \in DOMAIN calls :
        LET c == calls[i]
            baseURL == Get(heap, c.options, sBaseURL)
        IN (c.pc # "threw" /\ Truthy(baseURL) /\ c.urlArg.t = "string") =>
              IF Contains(c.urlArg.s, <<"/", "/">>)
              THEN IsPrefix(c.urlArg.s, c.url.s)
              ELSE IsPrefix(JoinedByOneSlash(baseURL.s, c.urlArg.s), c.url.s)

\* get('/bar', {baseURL: 'http://foo/'}) fetched 'http://foo//bar'.
C9_DoubledSlash ==
    \E i \in DOMAIN calls :
        /\ Get(heap, calls[i].options, sBaseURL) = Str(sHttpFooSlash)
        /\ calls[i].urlArg = Str(sBar)
        /\ calls[i].url = Str(sHttpFooSlash \o sBar)

\* C9 for a baseURL that does not end with '/'.
C9_ExceptTrailingSlash ==
    \A i \in DOMAIN calls :
        LET c == calls[i]
            baseURL == Get(heap, c.options, sBaseURL)
        IN (/\ c.pc # "threw" /\ Truthy(baseURL) /\ c.urlArg.t = "string"
            /\ baseURL.s[Len(baseURL.s)] # "/") =>
              IF Contains(c.urlArg.s, <<"/", "/">>)
              THEN IsPrefix(c.urlArg.s, c.url.s)
              ELSE IsPrefix(JoinedByOneSlash(baseURL.s, c.urlArg.s), c.url.s)

\* The default encoding of params: key=value pairs in key order.
RECURSIVE KeyValuePairs(_)
KeyValuePairs(entries) ==
    IF Len(entries) = 0 THEN <<>>
    ELSE FormEncode(Head(entries).k) \o <<"=">> \o FormEncode(StringOf(Head(entries).v))
         \o (IF Len(entries) > 1 THEN <<"&">> ELSE <<>>) \o KeyValuePairs(Tail(entries))

\* C10: when params is set, the query string (paramsSerializer(params) when
\* a serializer is supplied, else the key=value&... encoding in key order)
\* is appended with '&' if the url already contains '?', else with '?'; when
\* params is absent the url is passed unchanged.
C10_QueryAppended ==
    \A i \in DOMAIN calls :
        LET c == calls[i]
            params == Get(heap, c.options, sParams)
            ser == Get(heap, c.options, sParamsSerializer)
            query == IF ser # Undefined THEN ApplySerializer(ser, params).s
                     ELSE KeyValuePairs(Reify(heap, params).props)
            sep == IF \E j \in DOMAIN c.based.s : c.based.s[j] = "?" THEN <<"&">> ELSE <<"?">>
        IN c.pc # "threw" =>
              /\ params # Undefined => c.url = Str(c.based.s \o sep \o query)
              /\ params = Undefined => c.url = c.based
              /\ (params = Undefined /\ Get(heap, c.options, sBaseURL) = Undefined) =>
                    c.url = c.urlArg

\* get('/foo?c=42', {params: {a: 1, b: true}}) fetched '/foo?c=42&a=1&b=true'.
C10_Witness ==
    \E i \in DOMAIN calls :
        /\ calls[i].urlArg = Str(sFooQuery)
        /\ calls[i].url = Str(sFooQuery \o <<"&","a","=","1","&","b","=","t","r","u","e">>)

-----------------------------------------------------------------------------
(* Properties of merging, under SpecMerge *)

\* A configuration as the caller wrote or holds it, as a structure.
AsGiven(x) == IF x.t = "lit" THEN x ELSE Reify(heap, x)

\* The config argument of an argument list: the first argument where that is
\* not a string.
ConfigArgument(a) == IF a.url.t # "string" THEN a.url ELSE a.config

\* C2: deepMerge(base, override, flag) leaves both inputs unchanged at every
\* depth (same keys, same values, same sequence lengths), and no step of a
\* dispatch writes to the client defaults or to the per-call config object
\* it was given.
C2_InputsUnchanged ==
    [][ /\ Reify(heap', defaults) = Reify(heap, defaults)
        /\ \A k \in DOMAIN held : Reify(heap', held[k]) = Reify(heap, held[k])
        /\ \A i \in DOMAIN calls :
              Reify(heap', calls[i].config) = Reify(heap, calls[i].config)
        /\ \A i \in DOMAIN calls' \ DOMAIN calls :
              Reify(heap', calls'[i].config) = AsGiven(ConfigArgument(calls'[i].args))
        /\ \A i \in DOMAIN merges' \ DOMAIN merges :
              /\ Reify(heap', merges'[i].opts) = Reify(heap, merges'[i].opts)
              /\ Reify(heap', merges'[i].overrides) = Reify(heap, merges'[i].overrides)
      ]_vars

\* deepMerge(defaults, config) made a headers mapping that is neither
\* input's, out of two nested inputs.
C2_Witness ==
    \E i \in DOMAIN merges :
        LET m == merges[i]
        IN /\ m.opts = defaults
           /\ m.overrides = held[1]
           /\ IsObject(Get(heap, m.opts, sHeaders))
           /\ IsObject(Get(heap, m.overrides, sHeaders))
           /\ Reify(heap, Get(heap, m.out, sHeaders))
                 \notin {Reify(heap, Get(heap, m.opts, sHeaders)),
                         Reify(heap, Get(heap, m.overrides, sHeaders))}

-----------------------------------------------------------------------------
(* Properties of the envelope's config, under SpecMerge *)

\* C11: the envelope's config is the resolved configuration, the merge of
\* the client defaults with the per-call config: options that come only
\* from the defaults are in response.config, and response.config is defined
\* even when the call passed no per-call config.
C11_ConfigIsResolved ==
    \A i \in DOMAIN calls :
        LET c == calls[i]
        IN c.pc # "threw" =>
              /\ Get(heap, c.response, sConfig) # Undefined
              /\ Reify(heap, Get(heap, c.response, sConfig)) = Reify(heap, c.options)

\* get('/foo') on a client created with default headers: the merged
\* configuration has the headers, response.config is undefined.
C11_ConfigUndefined ==
    \E i \in DOMAIN calls :
        /\ calls[i].pc # "threw"
        /\ IsObject(Get(heap, calls[i].options, sHeaders))
        /\ Get(heap, calls[i].response, sConfig) = Undefined

\* What the envelope's config is: the per-call config argument itself.
C11_ConfigIsArgument ==
    \A i \in DOMAIN calls :
        calls[i].pc # "threw" => Get(heap, calls[i].response, sConfig) = calls[i].config

-----------------------------------------------------------------------------
(* Properties of the client's defaults property, under SpecClient *)

\* Call c started after the last assignment to client.defaults: the objects it
\* allocated are younger than the assigned object.
StartedAfterAssignment(c) ==
    /\ client.writes > 0
    /\ c.pc # "threw"
    /\ c.response.r > client.defaults.r

\* The merged configuration of call c is the merge of dflts with its config.
MergesAgainst(c, dflts) ==
    LET m == deepMerge(heap, dflts, c.config, FALSE)
    IN Reify(heap, c.options) = Reify(m.h, m.v)

\* C12: client.defaults is the active default configuration and is
\* replaceable: at any time the object read from client.defaults is the one
\* dispatches merge against, and every dispatch started after an assignment
\* to client.defaults merges its per-call config against the assigned object.
C12_DefaultsReplaceable ==
    /\ client.defaults = defaults
    /\ \A i \in DOMAIN calls :
          StartedAfterAssignment(calls[i]) => MergesAgainst(calls[i], client.defaults)

\* A call started after client.defaults was assigned an object with a
\* baseURL, whose merged configuration has no baseURL.
C12_StaleDefaults ==
    \E i \in DOMAIN calls :
        /\ StartedAfterAssignment(calls[i])
        /\ Get(heap, client.defaults, sBaseURL) # Undefined
        /\ Get(heap, calls[i].options, sBaseURL) = Undefined
        /\ calls[i].url = Str(sFoo)

\* Every dispatch merges against the object the client was created with,
\* whatever was assigned to client.defaults.
C12_MergesAgainstCreated ==
    \A i \in DOMAIN calls :
        calls[i].pc # "threw" => MergesAgainst(calls[i], defaults)

-----------------------------------------------------------------------------
(* Properties of overlapping calls, under SpecClient *)

\* The addresses of the objects reachable from value v in heap h.
RECURSIVE Reachable(_, _)
Reachable(h, v) ==
    IF ~IsObject(v) THEN {}
    ELSE {v.r}
         \cup UNION {Reachable(h, h[v.r].props[k].v) : k \in DOMAIN h[v.r].props}
         \cup UNION {Reachable(h, h[v.r].elems[k]) : k \in DOMAIN h[v.r].elems}

\* The mutable objects of call c: its merged configuration, the headers
\* mapping it hands to the transformRequest functions, its envelope.
OwnObjects(c) ==
    {c.options.r, c.response.r}
    \cup (IF IsObject(Get(heap, c.options, sHeaders))
          THEN {Get(heap, c.options, sHeaders).r} ELSE {})

\* Call c settled with its own envelope, which holds what its own raw
\* response holds and the decoded body of that raw response.
OwnEnvelope(c) ==
    /\ (c.transport = "resolved" =>
           \A k \in DOMAIN ForIn(heap, c.res) :
               Get(heap, c.response, ForIn(heap, c.res)[k].k) = ForIn(heap, c.res)[k].v)
    /\ (c.read = "resolved" =>
           /\ c.pc = "settled" /\ c.settles = 1 /\ c.value = c.response
           /\ EnvelopeData(c) = Decoded(BodyText(c), c.readAs))

\* C13: for any number of dispatches in flight on one client and any
\* interleaving of their transport and body-read completions, each dispatch
\* settles with its own envelope, populated only from its own raw response,
\* and no dispatch shares a mutable object (merged configuration, headers
\* mapping handed to the transformRequest functions, envelope) with another
\* dispatch or with the client defaults.
C13_NoSharedState ==
    \A i \in DOMAIN calls :
        /\ OwnEnvelope(calls[i])
        /\ OwnObjects(calls[i]) \cap Reachable(heap, defaults) = {}
        /\ \A j \in DOMAIN calls :
               i # j => OwnObjects(calls[i]) \cap OwnObjects(calls[j]) = {}

\* Two calls in flight whose merged configurations both hold the headers
\* mapping of the client defaults.
C13_HeadersShared ==
    \E i \in DOMAIN calls : \E j \in DOMAIN calls :
        /\ i # j
        /\ calls[i].pc = "fetching" /\ calls[j].pc = "reading"
        /\ IsObject(Get(heap, defaults, sHeaders))
        /\ Get(heap, calls[i].options, sHeaders) = Get(heap, defaults, sHeaders)
        /\ Get(heap, calls[j].options, sHeaders) = Get(heap, defaults, sHeaders)

\* What holds: every call has its own envelope and its own merged
\* configuration object, whatever the interleaving.
C13_OwnEnvelopeAndOptions ==
    \A i \in DOMAIN calls :
        /\ OwnEnvelope(calls[i])
        /\ {calls[i].options.r, calls[i].response.r} \cap Reachable(heap, defaults) = {}
        /\ \A j \in DOMAIN calls :
               i # j => {calls[i].options.r, calls[i].response.r}
                           \cap {calls[j].options.r, calls[j].response.r} = {}

-----------------------------------------------------------------------------
(* Properties of the shorthands, the body and the XSRF header, under SpecCalls *)

\* The method the merged configuration of call c must name: the per-call
\* config's where it names one, else the defaults'.
ConfiguredMethod(c) ==
    IF Get(heap, c.config, sMethod) # Undefined THEN Get(heap, c.config, sMethod)
    ELSE Get(heap, defaults, sMethod)

\* C14: a shorthand dispatches with its own verb (and post/put/patch with
\* their data): the method in the transport descriptor is always the
\* shorthand's verb, even when config.method or defaults.method names
\* another verb, while a direct call client(url, config) forwards the merged
\* config's method exactly as given.  (What the dispatch does with a data
\* argument that is falsy is the body selection of C16.)
C14_ShorthandVerb ==
    \A i \in DOMAIN calls :
        LET c == calls[i]
        IN c.pc # "threw" =>
              IF c.args.method # Undefined
              THEN /\ c.method = c.args.method
                   /\ Reify(heap, c.config) = c.args.config
                   /\ (Truthy(c.args.data) /\ Get(heap, c.options, sTransformRequest) = Undefined
                          => c.body = c.args.data)
              ELSE c.method = ConfiguredMethod(c)

\* post(url, data, {method: 'get'}) reached the transport as a post with the
\* data as its body.
C14_Witness ==
    \E i \in DOMAIN calls :
        /\ calls[i].args.method = Str(sPost)
        /\ Get(heap, calls[i].config, sMethod) = Str(sGet)
        /\ calls[i].method = Str(sPost)
        /\ calls[i].body = Str(sYep)

\* A direct call on a client whose defaults name put: the transport
\* descriptor's method is put.
C14_DirectCall ==
    \E i \in DOMAIN calls :
        /\ calls[i].args.method = Undefined
        /\ calls[i].config = Undefined
        /\ calls[i].method = Str(<<"p","u","t">>)


\* The merged transformRequest sequence of call c.
TransformSequence(c) ==
    IF IsArray(heap, Get(heap, c.options, sTransformRequest))
    THEN heap[Get(heap, c.options, sTransformRequest).r].elems
    ELSE <<>>

RECURSIVE ReplacedUnlessUndefined(_, _, _)

\* data after each function of fs was applied once, in order, to the data
\* left by its predecessor, a return value other than undefined replacing it.
ReplacedUnlessUndefined(fs, data, headers) ==
    IF Len(fs) = 0 THEN data
    ELSE LET r == ApplyTransform(Head(fs), data, headers)
         IN ReplacedUnlessUndefined(Tail(fs), IF r # Undefined THEN r ELSE data, headers)

\* The data the transforms of call c start from.
SelectedData(c) == SelectData(c.args.data, Get(heap, c.options, sData))

\* C15: each function of the merged transformRequest sequence is applied
\* exactly once, in sequence order, to the data left by its predecessor and
\* the merged headers; its return value replaces data whenever it is not
\* undefined (null, 0, the empty string and false included), and data stays
\* as it is only when the function returns undefined.
C15_TransformsReplaceData ==
    \A i \in DOMAIN calls :
        LET c == calls[i]
        IN c.pc # "threw" =>
              c.data = ReplacedUnlessUndefined(TransformSequence(c), SelectedData(c),
                                               Get(heap, c.options, sHeaders))

\* post('/foo', 'yep', {transformRequest: [f]}) with f returning '', 0, null
\* or false: the data is still 'yep'.
C15_FalsyReturnIgnored ==
    \E i \in DOMAIN calls :
        /\ calls[i].pc # "threw"
        /\ Len(TransformSequence(calls[i])) = 1
        /\ TransformSequence(calls[i])[1] \in {fEmpty, fZero, fNull, fFalse}
        /\ calls[i].args.data = Str(sYep)
        /\ calls[i].data = Str(sYep)
        /\ calls[i].body = Str(sYep)

\* Where every function returns undefined or a truthy value, C15 holds.
C15_ExceptFalsyReturns ==
    \A i \in DOMAIN calls :
        LET c == calls[i]
        IN (/\ c.pc # "threw"
            /\ \A k \in DOMAIN TransformSequence(c) :
                  TransformSequence(c)[k] \notin {fEmpty, fZero, fNull, fFalse}) =>
              c.data = ReplacedUnlessUndefined(TransformSequence(c), SelectedData(c),
                                               Get(heap, c.options, sHeaders))

\* Two functions applied in sequence order, after the one of the defaults.
C15_InOrder ==
    \E i \in DOMAIN calls :
        /\ TransformSequence(calls[i]) = <<fAppendB, fAppendA, fAppendB>>
        /\ calls[i].data = Str(sYep \o <<"b", "a", "b">>)


\* C16: body selection is data = bodyOverride ?? mergedConfig.data: the data
\* argument of post/put/patch is the request body whenever it is neither null
\* nor undefined (the empty string, 0 and false included), and the merged
\* config's data is used only when the argument is null or undefined.
C16_BodySelection ==
    \A i \in DOMAIN calls :
        LET c == calls[i]
        IN (c.pc # "threw" /\ TransformSequence(c) = <<>>) =>
              c.data = IF c.args.data \notin {Null, Undefined} THEN c.args.data
                       ELSE Get(heap, c.options, sData)

\* post('/foo', d, {data: 'x'}) with d the empty string, 0 or false: the
\* transport receives the body 'x'.
C16_FalsyArgumentDropped ==
    \E i \in DOMAIN calls :
        /\ calls[i].pc # "threw"
        /\ calls[i].args.data \in {Str(<<>>), Num(0), Bool(FALSE)}
        /\ Get(heap, calls[i].config, sData) = Str(<<"x">>)
        /\ calls[i].data = Str(<<"x">>)
        /\ calls[i].body = Str(<<"x">>)

\* Where the data argument is truthy, null or undefined, C16 holds.
C16_ExceptFalsyArgument ==
    \A i \in DOMAIN calls :
        LET c == calls[i]
        IN (/\ c.pc # "threw" /\ TransformSequence(c) = <<>>
            /\ c.args.data \notin {Str(<<>>), Num(0), Bool(FALSE)}) =>
              c.data = IF c.args.data \notin {Null, Undefined} THEN c.args.data
                       ELSE Get(heap, c.options, sData)


RECURSIVE SplitCookies(_, _)

\* The cookies of a cookie string 'n1=v1; n2=v2', as a sequence of texts
\* 'n=v'; cur is the text read so far.
SplitCookies(str, cur) ==
    IF Len(str) = 0 THEN <<cur>>
    ELSE IF Len(str) >= 2 /\ str[1] = ";" /\ str[2] = " "
         THEN <<cur>> \o SplitCookies(SubSeq(str, 3, Len(str)), <<>>)
         ELSE SplitCookies(Tail(str), Append(cur, Head(str)))

\* The values of the cookies named name in the store ck.
CookieValues(ck, name) ==
    IF ~ck.doc THEN {}
    ELSE {SubSeq(t, Len(name) + 2, Len(t)) :
            t \in {u \in {SplitCookies(ck.str, <<>>)[k] : k \in DOMAIN SplitCookies(ck.str, <<>>)} :
                     Len(u) > Len(name) /\ SubSeq(u, 1, Len(name) + 1) = name \o <<"=">>}}

\* The option named k as the per-call config of call c gives it (the clients
\* here have no XSRF options in their defaults).
Option(c, k) == Get(heap, c.config, k)

\* The names of the headers the dispatch of call c derived by itself.
DerivedNames(c) == {ForIn(heap, c.custom)[k].k : k \in DOMAIN ForIn(heap, c.custom)}

\* C17: when the xsrfCookieName option is absent, or the cookie store holds
\* no cookie of that name, the dispatch adds no XSRF header and raises no
\* error, whatever other cookies the store holds; when the named cookie
\* exists, the header xsrfHeaderName carries its decoded value.
C17_XsrfNoOp ==
    \A i \in DOMAIN calls :
        LET c == calls[i]
            name == Option(c, sXsrfCookieName)
            header == Option(c, sXsrfHeaderName)
        IN IF name = Undefined \/ CookieValues(cookie, name.s) = {}
           THEN /\ c.pc # "threw"
                /\ DerivedNames(c) \subseteq {sContentType, sAuthorization}
           ELSE header # Undefined =>
                   /\ c.pc # "threw"
                   /\ \E v \in CookieValues(cookie, name.s) :
                         /\ decodeURIComponent(v).ok
                         /\ Get(heap, c.custom, header.s) = Str(decodeURIComponent(v).s)
                         /\ Get(heap, c.headers, toLowerCase(header.s))
                               = Str(decodeURIComponent(v).s)

\* No xsrfCookieName, a cookie named 'undefined' in the store: the dispatch
\* sent a header named 'undefined', or one named by xsrfHeaderName.
C17_UndefinedCookieSent ==
    \E i \in DOMAIN calls :
        /\ calls[i].pc # "threw"
        /\ Option(calls[i], sXsrfCookieName) = Undefined
        /\ DerivedNames(calls[i]) \cap {sUndefined, sXXsrfToken} # {}

\* No xsrfCookieName, a cookie named 'undefined' whose value is no valid
\* percent-encoding: the dispatch threw a URIError.
C17_UndefinedCookieThrows ==
    \E i \in DOMAIN calls :
        /\ calls[i].pc = "threw"
        /\ calls[i].value = URIError
        /\ Option(calls[i], sXsrfCookieName) = Undefined

\* Where the store holds no cookie named 'undefined', C17 holds.
C17_ExceptCookieNamedUndefined ==
    \A i \in DOMAIN calls :
        LET c == calls[i]
            name == Option(c, sXsrfCookieName)
            header == Option(c, sXsrfHeaderName)
        IN CookieValues(cookie, sUndefined) = {} =>
             IF name = Undefined \/ CookieValues(cookie, name.s) = {}
             THEN /\ c.pc # "threw"
                  /\ DerivedNames(c) \subseteq {sContentType, sAuthorization}
             ELSE header # Undefined =>
                     /\ c.pc # "threw"
                     /\ \E v \in CookieValues(cookie, name.s) :
                           /\ decodeURIComponent(v).ok
                           /\ Get(heap, c.custom, header.s) = Str(decodeURIComponent(v).s)
                           /\ Get(heap, c.headers, toLowerCase(header.s))
                                 = Str(decodeURIComponent(v).s)

\* The named cookie exists: the header carries 't k', decoded from 't%20k'.
C17_TokenSent ==
    \E i \in DOMAIN calls :
        /\ Option(calls[i], sXsrfCookieName) = Str(sXsrf)
        /\ Get(heap, calls[i].headers, toLowerCase(sXXsrfToken)) = Str(<<"t", " ", "k">>)

-----------------------------------------------------------------------------
(* Properties of deepMerge on scalars and sequences, under SpecMerge *)

\* The key of entry k of a mapping, as deepMerge stores it.
StoredKey(entries, k, lowerCase) ==
    IF lowerCase THEN toLowerCase(entries[k].k) ELSE entries[k].k

\* Entry k is the last one of entries stored under its key.
LastStored(entries, k, lowerCase) ==
    \A j \in DOMAIN entries :
        j > k => StoredKey(entries, j, lowerCase) # StoredKey(entries, k, lowerCase)

\* Some entry of the base is stored under the key of entry k of the override.
InBase(base, entries, k, lowerCase) ==
    \E j \in DOMAIN ForIn(heap, base) :
        StoredKey(ForIn(heap, base), j, lowerCase) = StoredKey(entries, k, lowerCase)

\* In the merge of base and override into out, every override value that is
\* one of scalars and whose key the base has is the merged value.
ScalarsReplace(base, override, lowerCase, out, scalars) ==
    (IsObject(base) /\ ~IsArray(heap, base) /\ IsObject(override)) =>
        \A k \in DOMAIN ForIn(heap, override) :
            (/\ LastStored(ForIn(heap, override), k, lowerCase)
             /\ InBase(base, ForIn(heap, override), k, lowerCase)
             /\ ForIn(heap, override)[k].v.t \in scalars) =>
                Get(heap, out, StoredKey(ForIn(heap, override), k, lowerCase))
                    = ForIn(heap, override)[k].v

\* ScalarsReplace in every direct merge and in the merge of every dispatch.
EveryMerge(scalars) ==
    /\ \A i \in DOMAIN merges :
          ScalarsReplace(merges[i].opts, merges[i].overrides, merges[i].lowerCase,
                         merges[i].out, scalars)
    /\ \A i \in DOMAIN calls :
          calls[i].pc # "threw" =>
             ScalarsReplace(defaults, calls[i].config, FALSE, calls[i].options, scalars)

\* C18: in merge, for a key present in base, an override value that is not
\* a mapping or a sequence (any scalar, null included) replaces the existing
\* value outright, so the merged value equals the override value; only an
\* override value that is a mapping or a sequence is merged into the
\* existing value.
C18_ScalarsReplace ==
    EveryMerge({"undefined", "null", "string", "number", "boolean", "function"})

\* A merge whose base has a headers mapping and whose override has headers:
\* null: the merged headers are a mapping.
C18_NullMerged ==
    \E i \in DOMAIN merges :
        /\ IsObject(Get(heap, merges[i].opts, sHeaders))
        /\ IsObject(merges[i].overrides)
        /\ HasKey(heap[merges[i].overrides.r].props, sHeaders)
        /\ Get(heap, merges[i].overrides, sHeaders) = Null
        /\ IsObject(Get(heap, merges[i].out, sHeaders))

\* For every scalar other than null, C18 holds.
C18_ExceptNull ==
    EveryMerge({"undefined", "string", "number", "boolean", "function"})

\* A number replaced a mapping.
C18_NumberReplaced ==
    \E i \in DOMAIN merges :
        /\ IsObject(Get(heap, merges[i].opts, sParams))
        /\ Get(heap, merges[i].out, sParams) = Num(0)

-----------------------------------------------------------------------------
(* Properties of blob-like bodies, under SpecRequest *)

\* A body with a text function and no append function.
BlobLike(d) ==
    /\ IsObject(d)
    /\ typeof(Get(heap, d, sText)) = "function"
    /\ typeof(Get(heap, d, sAppend)) # "function"

\* C19: a non-null object body that has a text function but no append
\* function (an opaque blob-like body) is passed to the transport as the same
\* unmodified value: it is not JSON-stringified and no content-type
\* application/json is added; JSON encoding applies only to objects that
\* lack both functions.
C19_BlobPassedThrough ==
    \A i \in DOMAIN calls :
        LET c == calls[i]
        IN c.pc # "threw" =>
              /\ BlobLike(c.data) =>
                    /\ c.body = c.data
                    /\ GetKey(SentHeaders(c), sContentType) = Explicit(c, sContentType)
              /\ (IsObject(c.data) /\ c.body # c.data) =>
                    /\ typeof(Get(heap, c.data, sText)) # "function"
                    /\ typeof(Get(heap, c.data, sAppend)) # "function"

\* post('/foo', blob): the transport received the text '{}' with
\* content-type application/json.
C19_BlobStringified ==
    \E i \in DOMAIN calls :
        /\ BlobLike(calls[i].data)
        /\ calls[i].body = Str(<<"{", "}">>)
        /\ Explicit(calls[i], sContentType) = Undefined
        /\ GetKey(SentHeaders(calls[i]), sContentType) = Str(sApplicationJson)

-----------------------------------------------------------------------------
(* Properties of sequences in a merge, under SpecMerge *)

\* The elements of the sequence v.
Elements(v) == heap[v.r].elems

\* C20: when defaults and the per-call config both hold a sequence under
\* the same key (transformRequest, say), the merged value is the defaults'
\* sequence followed by the per-call sequence: the length is the sum, the
\* order is kept, nothing is merged element by element, and so the default
\* transforms run before the per-call transforms.
C20_SequencesConcatenated ==
    /\ \A i \in DOMAIN merges :
          (IsArray(heap, merges[i].opts) /\ IsArray(heap, merges[i].overrides)) =>
             /\ IsArray(heap, merges[i].out)
             /\ Elements(merges[i].out) = Elements(merges[i].opts) \o Elements(merges[i].overrides)
    /\ \A i \in DOMAIN calls :
          LET c == calls[i]
          IN c.pc # "threw" =>
                /\ \A k \in DOMAIN ForIn(heap, c.config) :
                      LET key == ForIn(heap, c.config)[k].k
                      IN (IsArray(heap, Get(heap, defaults, key))
                          /\ IsArray(heap, Get(heap, c.config, key))) =>
                            /\ IsArray(heap, Get(heap, c.options, key))
                            /\ Elements(Get(heap, c.options, key))
                                 = Elements(Get(heap, defaults, key))
                                      \o Elements(Get(heap, c.config, key))
                /\ (IsArray(heap, Get(heap, defaults, sTransformRequest))
                    /\ IsArray(heap, Get(heap, c.config, sTransformRequest))) =>
                      c.data = ReplacedUnlessUndefined(
                                  Elements(Get(heap, defaults, sTransformRequest))
                                     \o Elements(Get(heap, c.config, sTransformRequest)),
                                  SelectedData(c), Get(heap, c.options, sHeaders))

\* Defaults with transformRequest [fAppendA], a call with [fAppendB,
\* fNoChange]: the merged sequence has the three in that order and the data
\* is 'ab'.
C20_Witness ==
    \E i \in DOMAIN calls :
        /\ calls[i].pc # "threw"
        /\ Elements(Get(heap, defaults, sTransformRequest)) = <<fAppendA>>
        /\ Elements(Get(heap, calls[i].config, sTransformRequest)) = <<fAppendB, fNoChange>>
        /\ Elements(Get(heap, calls[i].options, sTransformRequest))
              = <<fAppendA, fAppendB, fNoChange>>
        /\ calls[i].data = Str(<<"a", "b">>)

-----------------------------------------------------------------------------
(* Properties of a failed body read, under Spec *)

\* C21: if the body-read method named by responseType itself fails (json on
\* a body that is not valid JSON, say), the failure is not surfaced: the
\* dispatch still settles according to the status check alone, resolving
\* with the envelope when the check passed, and the envelope's data stays
\* undefined.
C21_ReadFailureNotSurfaced ==
    \A i \in DOMAIN calls :
        LET c == calls[i]
        IN /\ c.read = "rejected" =>
                 /\ c.pc = "settled"
                 /\ c.settles = 1
                 /\ c.value = c.response
                 /\ c.state = IF Passes(c) THEN "fulfilled" ELSE "rejected"
                 /\ Get(heap, c.response, sData) = Undefined
           /\ (c.read # "none" /\ c.readAs = sJson /\ ~ValidJson(BodyText(c))) =>
                 c.read = "rejected"

\* get('/foo', {responseType: 'json'}) answered 200 with the body 'yep':
\* json() failed, the promise is fulfilled with the envelope, data undefined.
C21_Witness ==
    \E i \in DOMAIN calls :
        /\ calls[i].read = "rejected"
        /\ Get(heap, calls[i].options, sResponseType) = Str(sJson)
        /\ BodyText(calls[i]) = sYep
        /\ calls[i].state = "fulfilled"
        /\ calls[i].value = calls[i].response
        /\ Get(heap, calls[i].response, sStatus) = Num(200)
        /\ Get(heap, calls[i].response, sData) = Undefined

=============================================================================
